---- MODULE Spec2Model ----
(***************************************************************************)
(* Model of MediaStreamTutorSession (src/src/lib/api/mediaStreamTutor.ts): *)
(* the capability negotiator (startMediaStream and the stop calls), the    *)
(* frame sampler, the tutor call analyzeScreenAndSpeech, the speech        *)
(* recognizer and the speech synthesizer.                                  *)
(*                                                                         *)
(* JavaScript runs one task at a time: every action below is the code that *)
(* runs between two suspension points (an await, a timer, an event), so an *)
(* action is atomic exactly where the program is.                          *)
(***************************************************************************)
EXTENDS Integers, Sequences, FiniteSets, TLC

\* ---------------------------------------------------------------- bounds
MaxCalls == 2
MaxStreams == 3
MaxTicks == 2
MaxRequests == 2
MaxTranscripts == 2
MaxRecognizers == 3
MaxActions == 3
MaxDrains == 2
MaxHistory == 4

\* processOfflineQueue cleans the queue up beyond this many completed actions
CleanupThreshold == 50

CallIds == 1..MaxCalls
StreamIds == 1..MaxStreams
TickIds == 1..MaxTicks
RecognizerIds == 1..MaxRecognizers
DrainIds == 1..MaxDrains

\* the advisories (type 'system-info') and the other messages of sendMessage
SystemInfo == {"mic-denied", "mic-error", "camera-denied", "camera-error",
               "screen-denied", "screen-error", "analysis-error",
               "recognition-denied", "synthesis-error"}

\* DOMException names of a rejected getUserMedia / getDisplayMedia
AcquireErrors == {"NotAllowedError", "NotFoundError"}

VARIABLES
  state,              \* MediaStreamSessionState: the six flags
  localAudioStream,   \* 0 (null) or the id of the held stream
  localVideoStream,
  localScreenStream,
  trackReady,         \* readyState of the track of each stream
  trackKind,          \* which acquisition produced the stream
  nextStream,         \* next fresh stream id
  calls,              \* startMediaStream calls suspended at an await
  captureInterval,    \* TRUE when the setInterval handle is set
  ticks,              \* captureScreenFrame calls suspended at an await
  speechToTextResult, \* 0 ('') or the id of the last final transcript
  nextTranscript,
  messageHistory,
  nextRequest,        \* next id of a generateContent request
  saved,              \* the messages last written by saveSession
  outbox,             \* the messages sendMessage emitted in the last step
  returned,           \* what a startMediaStream call returned in the last step
  speechRecognition,  \* 0 (null) or the id of the referenced recognizer
  recognizers,        \* per recognizer instance: handlers attached, running
  nextRecognizer,
  timers,             \* pending setTimeout callbacks, per kind
  utterances,         \* per tutor reply: state of its utterance
  watchdog,           \* utterances whose 1000 ms start check is pending
  closed,             \* close() has been called
  stored,             \* localStorage['realtutor_offline_queue'], parsed
  drains,             \* processOfflineQueue calls suspended at an await
  applied,            \* the actions the store applied, in order
  nextAction,         \* next id of an offline action
  historyArg,         \* messageHistory argument of a tutor-response call
  geminiHistory,      \* the history last handed to model.startChat
  chatStarted         \* how the last tutor-response call went on

vars == <<state, localAudioStream, localVideoStream, localScreenStream,
          trackReady, trackKind, nextStream, calls, captureInterval, ticks,
          speechToTextResult, nextTranscript, messageHistory, nextRequest,
          saved, outbox, returned, speechRecognition, recognizers,
          nextRecognizer, timers, utterances, watchdog, closed,
          stored, drains, applied, nextAction,
          historyArg, geminiHistory, chatStarted>>

capVars == <<state, localAudioStream, localVideoStream, localScreenStream,
             trackReady, trackKind, nextStream, calls, captureInterval>>
tutorVars == <<ticks, speechToTextResult, nextTranscript, messageHistory,
               nextRequest, saved>>
recVars == <<speechRecognition, recognizers, nextRecognizer>>
synthVars == <<utterances, watchdog>>
sessionVars == <<capVars, tutorVars, recVars, synthVars, outbox, returned,
                 timers, closed>>
offlineVars == <<stored, drains, applied, nextAction>>
geminiVars == <<historyArg, geminiHistory, chatStarted>>

Range(s) == {s[i] : i \in DOMAIN s}

\* ------------------------------------------------------------ initial state
InitialState ==
  [isConnected |-> FALSE, isAudioActive |-> FALSE, isVideoActive |-> FALSE,
   isScreenActive |-> FALSE, isProcessing |-> FALSE, isSpeaking |-> FALSE]

IdleCall == [pc |-> "idle", audio |-> FALSE, video |-> FALSE, screen |-> FALSE]

IdleTick == [pc |-> "idle", speechText |-> 0, request |-> 0, before |-> <<>>]

SystemMessage == [role |-> "system", request |-> 0, text |-> 0]

TimerKinds == {"audioStart", "restart", "create", "start"}

InitSession ==
  /\ state = InitialState
  /\ localAudioStream = 0
  /\ localVideoStream = 0
  /\ localScreenStream = 0
  /\ trackReady = [i \in StreamIds |-> "none"]
  /\ trackKind = [i \in StreamIds |-> "none"]
  /\ nextStream = 1
  /\ calls = [c \in CallIds |-> IdleCall]
  /\ captureInterval = FALSE
  /\ ticks = [t \in TickIds |-> IdleTick]
  /\ speechToTextResult = 0
  /\ nextTranscript = 1
  /\ messageHistory = <<SystemMessage>>
  /\ nextRequest = 1
  /\ saved = <<>>
  /\ outbox = <<>>
  /\ returned = "none"
  /\ speechRecognition = 1
  /\ recognizers = [i \in RecognizerIds |->
                      IF i = 1 THEN [handlers |-> TRUE, running |-> FALSE]
                               ELSE [handlers |-> FALSE, running |-> FALSE]]
  /\ nextRecognizer = 2
  /\ timers = [k \in TimerKinds |-> 0]
  /\ utterances = [r \in 1..MaxRequests |-> "none"]
  /\ watchdog = {}
  /\ closed = FALSE

\* --------------------------------------------------- capability negotiator
\* The fields the synchronous parts of startMediaStream read and write.
Core ==
  [state |-> state, ready |-> trackReady, capture |-> captureInterval]

\* a stop call that drops the stream without stopping its tracks
LeaveTracks(ready, id) == ready

\* getTracks().forEach(track => track.stop()) on a held stream
StopTracks(ready, id) ==
  IF id = 0 THEN ready ELSE [ready EXCEPT ![id] = "ended"]

\* startScreenCapture: clears the old interval and sets a new one
startScreenCapture(s) == [s EXCEPT !.capture = TRUE]

\* startMediaStream from "화면 캡처 시작" to the return
FromCapture(cfg, s) ==
  [core |-> IF cfg.screen /\ s.state.isScreenActive
              THEN startScreenCapture(s) ELSE s,
   pc |-> "idle"]

\* startMediaStream from the screen branch on; startScreenStream up to its
\* await stops the tracks of the stream it still references
FromScreen(cfg, s) ==
  IF cfg.screen /\ ~s.state.isScreenActive
    THEN [core |-> [s EXCEPT !.ready = StopTracks(s.ready, localScreenStream)],
          pc |-> "awaitScreen"]
    ELSE FromCapture(cfg, s)

\* startMediaStream from the video branch on; startVideoStream up to its await
FromVideo(cfg, s) ==
  IF cfg.video /\ ~s.state.isVideoActive
    THEN [core |-> [s EXCEPT !.ready = StopTracks(s.ready, localVideoStream)],
          pc |-> "awaitVideo"]
    ELSE FromScreen(cfg, s)

\* startMediaStream from its first line; startAudioStream up to its await
FromAudio(cfg, s) ==
  IF cfg.audio /\ ~s.state.isAudioActive
    THEN [core |-> s, pc |-> "awaitAudio"]
    ELSE FromVideo(cfg, s)

\* startMediaStream reaches "return true" whenever it runs to its end: every
\* step has a try/catch of its own, so the outer catch and its "return false"
\* are never entered
Returned(pc) == IF pc = "idle" THEN "true" ELSE "none"

\* writes the result of a synchronous part back to the session; a suspended
\* call keeps the part of its config it has still to read
Settle(c, cfg, r) ==
  /\ state' = r.core.state
  /\ returned' = Returned(r.pc)
  /\ UNCHANGED <<offlineVars, geminiVars>>
  /\ trackReady' = r.core.ready
  /\ captureInterval' = r.core.capture
  /\ calls' = [calls EXCEPT ![c] =
                 IF r.pc = "idle" THEN IdleCall
                 ELSE [pc |-> r.pc,
                       audio |-> FALSE,
                       video |-> cfg.video /\ r.pc = "awaitAudio",
                       screen |-> cfg.screen]]

Configs ==
  {cfg \in [audio : BOOLEAN, video : BOOLEAN, screen : BOOLEAN] :
     cfg.audio \/ cfg.video \/ cfg.screen}

\* the suspended calls are interchangeable: a new call takes the first free
\* place
FreeCall(c) ==
  /\ calls[c].pc = "idle"
  /\ \A d \in CallIds : d < c => calls[d].pc # "idle"

startMediaStream(c, cfg) ==
  /\ FreeCall(c)
  /\ Settle(c, cfg, FromAudio(cfg, Core))
  /\ outbox' = <<>>
  /\ UNCHANGED <<localAudioStream, localVideoStream, localScreenStream,
                 trackKind, nextStream, timers, closed>>
  /\ UNCHANGED <<tutorVars, recVars, synthVars>>

\* getUserMedia({audio: true}) resolves: startAudioStream after its await
AudioGranted(c) ==
  /\ calls[c].pc = "awaitAudio"
  /\ nextStream <= MaxStreams
  /\ localAudioStream' = nextStream
  /\ trackKind' = [trackKind EXCEPT ![nextStream] = "audio"]
  /\ nextStream' = nextStream + 1
  /\ timers' = [timers EXCEPT !["audioStart"] = @ + 1]
  /\ Settle(c, calls[c],
            FromVideo(calls[c],
              [Core EXCEPT !.state.isAudioActive = TRUE,
                           !.ready[nextStream] = "live"]))
  /\ outbox' = <<>>
  /\ UNCHANGED <<localVideoStream, localScreenStream, closed>>
  /\ UNCHANGED <<tutorVars, recVars, synthVars>>

\* getUserMedia({audio: true}) rejects: the catch of startAudioStream, then
\* the catch of startMediaStream
AudioFailed(c, err) ==
  /\ calls[c].pc = "awaitAudio"
  /\ Settle(c, calls[c], FromVideo(calls[c], Core))
  /\ outbox' = IF err = "NotAllowedError" THEN <<"mic-denied", "mic-error">>
                                          ELSE <<"mic-error">>
  /\ UNCHANGED <<localAudioStream, localVideoStream, localScreenStream,
                 trackKind, nextStream, timers, closed>>
  /\ UNCHANGED <<tutorVars, recVars, synthVars>>

\* getUserMedia({video: true}) resolves: startVideoStream after its await
VideoGranted(c) ==
  /\ calls[c].pc = "awaitVideo"
  /\ nextStream <= MaxStreams
  /\ localVideoStream' = nextStream
  /\ trackKind' = [trackKind EXCEPT ![nextStream] = "video"]
  /\ nextStream' = nextStream + 1
  /\ Settle(c, calls[c],
            FromScreen(calls[c],
              [Core EXCEPT !.state.isVideoActive = TRUE,
                           !.ready[nextStream] = "live"]))
  /\ outbox' = <<>>
  /\ UNCHANGED <<localAudioStream, localScreenStream, timers, closed>>
  /\ UNCHANGED <<tutorVars, recVars, synthVars>>

\* a catch that reports permission errors only, as startAudioStream's does
VideoAdvisoryOnlyDenied(err) ==
  IF err = "NotAllowedError" THEN <<"camera-denied">> ELSE <<>>

\* the messages the catch of startVideoStream sends
VideoAdvisory(err) ==
  IF err = "NotAllowedError" THEN <<"camera-denied">> ELSE <<"camera-error">>

\* getUserMedia({video: true}) rejects: the catch of startVideoStream
VideoFailed(c, err) ==
  /\ calls[c].pc = "awaitVideo"
  /\ Settle(c, calls[c], FromScreen(calls[c], Core))
  /\ outbox' = VideoAdvisory(err)
  /\ UNCHANGED <<localAudioStream, localVideoStream, localScreenStream,
                 trackKind, nextStream, timers, closed>>
  /\ UNCHANGED <<tutorVars, recVars, synthVars>>

\* getDisplayMedia resolves: startScreenStream after its await
ScreenGranted(c) ==
  /\ calls[c].pc = "awaitScreen"
  /\ nextStream <= MaxStreams
  /\ localScreenStream' = nextStream
  /\ trackKind' = [trackKind EXCEPT ![nextStream] = "screen"]
  /\ nextStream' = nextStream + 1
  /\ Settle(c, calls[c],
            FromCapture(calls[c],
              startScreenCapture(
                [Core EXCEPT !.state.isScreenActive = TRUE,
                             !.ready[nextStream] = "live"])))
  /\ outbox' = <<>>
  /\ UNCHANGED <<localAudioStream, localVideoStream, timers, closed>>
  /\ UNCHANGED <<tutorVars, recVars, synthVars>>

\* the catch of startScreenStream
ScreenFailed(c, err) ==
  /\ calls[c].pc = "awaitScreen"
  /\ Settle(c, calls[c], FromCapture(calls[c], Core))
  /\ outbox' = IF err = "NotAllowedError" THEN <<"screen-denied">>
                                          ELSE <<"screen-error">>
  /\ UNCHANGED <<localAudioStream, localVideoStream, localScreenStream,
                 trackKind, nextStream, timers, closed>>
  /\ UNCHANGED <<tutorVars, recVars, synthVars>>

\* ------------------------------------------------------------ stop calls
\* onresult/onerror/onend = null and stop() on the referenced recognizer
Detached(recs, id) ==
  IF id = 0 THEN recs
  ELSE [recs EXCEPT ![id] = [handlers |-> FALSE, running |-> FALSE]]

\* a speak() that appends to the queue of the engine without emptying it
CancelNothing(utts) == utts

\* window.speechSynthesis.cancel(): the queue is emptied; the utterances it
\* held get their end/error event later
Cancel(utts) ==
  [r \in DOMAIN utts |->
     IF utts[r] \in {"queued", "speaking"} THEN "cancelled" ELSE utts[r]]

\* a stopVideoStream that clears the flag of the screen as well
StopBothVisualState(st) ==
  IF localVideoStream # 0
    THEN [st EXCEPT !.isVideoActive = FALSE, !.isScreenActive = FALSE] ELSE st

\* stopVideoStream, as a function of the flags and the tracks
StopVideoState(st) ==
  IF localVideoStream # 0 THEN [st EXCEPT !.isVideoActive = FALSE] ELSE st

\* stopScreenStream, as a function of the flags
StopScreenState(st) ==
  IF localScreenStream # 0 THEN [st EXCEPT !.isScreenActive = FALSE] ELSE st

stopAudioStream ==
  /\ state' = [state EXCEPT !.isAudioActive = FALSE]
  /\ recognizers' = Detached(recognizers, speechRecognition)
  /\ speechRecognition' = 0
  /\ trackReady' = StopTracks(trackReady, localAudioStream)
  /\ localAudioStream' = 0
  /\ returned' = "none"
  /\ UNCHANGED <<offlineVars, geminiVars>>
  /\ outbox' = <<>>
  /\ UNCHANGED <<localVideoStream, localScreenStream, trackKind, nextStream,
                 calls, captureInterval, nextRecognizer, timers, closed>>
  /\ UNCHANGED <<tutorVars, synthVars>>

stopVideoStream ==
  /\ state' = StopVideoState(state)
  /\ trackReady' = StopTracks(trackReady, localVideoStream)
  /\ returned' = "none"
  /\ UNCHANGED <<offlineVars, geminiVars>>
  /\ outbox' = <<>>
  /\ UNCHANGED <<localAudioStream, localVideoStream, localScreenStream,
                 trackKind, nextStream, calls, captureInterval, timers, closed>>
  /\ UNCHANGED <<tutorVars, recVars, synthVars>>

stopScreenStream ==
  /\ state' = StopScreenState(state)
  /\ trackReady' = StopTracks(trackReady, localScreenStream)
  /\ captureInterval' = FALSE
  /\ returned' = "none"
  /\ UNCHANGED <<offlineVars, geminiVars>>
  /\ outbox' = <<>>
  /\ UNCHANGED <<localAudioStream, localVideoStream, localScreenStream,
                 trackKind, nextStream, calls, timers, closed>>
  /\ UNCHANGED <<tutorVars, recVars, synthVars>>

\* A live track ends by itself (device unplugged, the browser's "stop
\* sharing" button): readyState becomes "ended" and the ended event fires.
\* Only the tracks of startScreenStream have an onended handler.
TrackEnded(id) ==
  /\ trackReady[id] = "live"
  /\ IF trackKind[id] = "screen"
       THEN /\ state' = StopScreenState(state)
            /\ trackReady' = StopTracks([trackReady EXCEPT ![id] = "ended"],
                                        localScreenStream)
            /\ captureInterval' = FALSE
       ELSE /\ trackReady' = [trackReady EXCEPT ![id] = "ended"]
            /\ UNCHANGED <<state, captureInterval>>
  /\ returned' = "none"
  /\ UNCHANGED <<offlineVars, geminiVars>>
  /\ outbox' = <<>>
  /\ UNCHANGED <<localAudioStream, localVideoStream, localScreenStream,
                 trackKind, nextStream, calls, timers, closed>>
  /\ UNCHANGED <<tutorVars, recVars, synthVars>>

\* close(), called once
close ==
  /\ ~closed
  /\ closed' = TRUE
  /\ state' = InitialState
  /\ recognizers' = Detached(recognizers, speechRecognition)
  /\ speechRecognition' = 0
  /\ trackReady' = StopTracks(StopTracks(StopTracks(trackReady,
                       localAudioStream), localVideoStream), localScreenStream)
  /\ localAudioStream' = 0
  /\ captureInterval' = FALSE
  /\ utterances' = Cancel(utterances)
  /\ returned' = "none"
  /\ UNCHANGED <<offlineVars, geminiVars>>
  /\ outbox' = <<>>
  /\ UNCHANGED <<localVideoStream, localScreenStream, trackKind, nextStream,
                 calls, nextRecognizer, timers, watchdog>>
  /\ UNCHANGED tutorVars

\* ------------------------------------------------------------ frame sampler
\* API_KEY is set and window.ImageCapture exists: without either the sampler
\* never reaches the tutor. A history entry carries the id of the request
\* that produced it and, for a user turn, the transcript it quotes.
UserMessage(r, text) == [role |-> "user", request |-> r, text |-> text]

TutorMessage(r) == [role |-> "tutor", request |-> r, text |-> 0]

\* One firing of the setInterval callback: captureScreenFrame up to
\* "await imageCapture.grabFrame()".
FreeTick(t) ==
  /\ ticks[t].pc = "idle"
  /\ \A u \in TickIds : u < t => ticks[u].pc # "idle"

captureScreenFrame(t) ==
  /\ captureInterval
  /\ FreeTick(t)
  /\ ticks' = IF localScreenStream = 0 \/ ~state.isScreenActive
                THEN ticks
                ELSE [ticks EXCEPT ![t].pc = "grabFrame"]
  /\ returned' = "none"
  /\ UNCHANGED <<offlineVars, geminiVars>>
  /\ outbox' = <<>>
  /\ UNCHANGED <<capVars, speechToTextResult, nextTranscript, messageHistory,
                 nextRequest, saved, timers, closed>>
  /\ UNCHANGED <<recVars, synthVars>>

\* grabFrame rejects (the track has ended): the catch of captureScreenFrame
GrabFrameFailed(t) ==
  /\ ticks[t].pc = "grabFrame"
  /\ ticks' = [ticks EXCEPT ![t] = IdleTick]
  /\ returned' = "none"
  /\ UNCHANGED <<offlineVars, geminiVars>>
  /\ outbox' = <<>>
  /\ UNCHANGED <<capVars, speechToTextResult, nextTranscript, messageHistory,
                 nextRequest, saved, timers, closed>>
  /\ UNCHANGED <<recVars, synthVars>>

\* grabFrame resolves with no transcript waiting: the frame is discarded
FrameDiscarded(t) ==
  /\ ticks[t].pc = "grabFrame"
  /\ speechToTextResult = 0
  /\ ticks' = [ticks EXCEPT ![t] = IdleTick]
  /\ returned' = "none"
  /\ UNCHANGED <<offlineVars, geminiVars>>
  /\ outbox' = <<>>
  /\ UNCHANGED <<capVars, speechToTextResult, nextTranscript, messageHistory,
                 nextRequest, saved, timers, closed>>
  /\ UNCHANGED <<recVars, synthVars>>

\* a captureScreenFrame that forwards every frame, transcript or not
AnalyzeAlways(t) ==
  /\ ticks[t].pc = "grabFrame"
  /\ nextRequest <= MaxRequests
  /\ state' = [state EXCEPT !.isProcessing = TRUE]
  /\ messageHistory' =
       Append(messageHistory, UserMessage(nextRequest, speechToTextResult))
  /\ ticks' = [ticks EXCEPT ![t] =
                 [pc |-> "generateContent", speechText |-> speechToTextResult,
                  request |-> nextRequest, before |-> messageHistory]]
  /\ nextRequest' = nextRequest + 1
  /\ returned' = "none"
  /\ UNCHANGED <<offlineVars, geminiVars>>
  /\ outbox' = <<"user-message">>
  /\ UNCHANGED <<localAudioStream, localVideoStream, localScreenStream,
                 trackReady, trackKind, nextStream, calls, captureInterval,
                 speechToTextResult, nextTranscript, saved, timers, closed>>
  /\ UNCHANGED <<recVars, synthVars>>

\* grabFrame resolves with a transcript waiting: analyzeScreenAndSpeech up
\* to "await model.generateContent(...)"
AnalyzeBegin(t) ==
  /\ ticks[t].pc = "grabFrame"
  /\ speechToTextResult # 0
  /\ nextRequest <= MaxRequests
  /\ state' = [state EXCEPT !.isProcessing = TRUE]
  /\ messageHistory' =
       Append(messageHistory, UserMessage(nextRequest, speechToTextResult))
  /\ ticks' = [ticks EXCEPT ![t] =
                 [pc |-> "generateContent", speechText |-> speechToTextResult,
                  request |-> nextRequest, before |-> messageHistory]]
  /\ nextRequest' = nextRequest + 1
  /\ returned' = "none"
  /\ UNCHANGED <<offlineVars, geminiVars>>
  /\ outbox' = <<"user-message">>
  /\ UNCHANGED <<localAudioStream, localVideoStream, localScreenStream,
                 trackReady, trackKind, nextStream, calls, captureInterval,
                 speechToTextResult, nextTranscript, saved, timers, closed>>
  /\ UNCHANGED <<recVars, synthVars>>

\* an analyzeScreenAndSpeech without the reset of its finally block
FinallyOmitted(st) == st

\* the finally of analyzeScreenAndSpeech
Finally(st) == [st EXCEPT !.isProcessing = FALSE]

\* getGenerativeModel / startChat throws before the user turn is pushed: the
\* outer catch and the finally of analyzeScreenAndSpeech, then
\* captureScreenFrame clears the transcript
AnalyzeThrows(t) ==
  /\ ticks[t].pc = "grabFrame"
  /\ speechToTextResult # 0
  /\ state' = Finally([state EXCEPT !.isProcessing = TRUE])
  /\ speechToTextResult' = 0
  /\ ticks' = [ticks EXCEPT ![t] = IdleTick]
  /\ returned' = "none"
  /\ UNCHANGED <<offlineVars, geminiVars>>
  /\ outbox' = <<>>
  /\ UNCHANGED <<localAudioStream, localVideoStream, localScreenStream,
                 trackReady, trackKind, nextStream, calls, captureInterval,
                 nextTranscript, messageHistory, nextRequest, saved, timers,
                 closed>>
  /\ UNCHANGED <<recVars, synthVars>>

\* speakResponse: cancel, isSpeaking, a new utterance and its start check
speakResponse(r) ==
  /\ utterances' = [Cancel(utterances) EXCEPT ![r] = "queued"]
  /\ watchdog' = watchdog \cup {r}

\* generateContent resolves: the reply is pushed, spoken and saved
ResponseArrived(t) ==
  /\ ticks[t].pc = "generateContent"
  /\ messageHistory' = Append(messageHistory, TutorMessage(ticks[t].request))
  /\ returned' = "none"
  /\ UNCHANGED <<offlineVars, geminiVars>>
  /\ outbox' = <<"tutor-message">>
  /\ speakResponse(ticks[t].request)
  /\ saved' = messageHistory'
  /\ state' = Finally([state EXCEPT !.isSpeaking = TRUE])
  /\ speechToTextResult' = 0
  /\ ticks' = [ticks EXCEPT ![t] = IdleTick]
  /\ UNCHANGED <<localAudioStream, localVideoStream, localScreenStream,
                 trackReady, trackKind, nextStream, calls, captureInterval,
                 nextTranscript, nextRequest, timers, closed>>
  /\ UNCHANGED recVars

\* generateContent rejects (quota, network, malformed response)
ResponseFailed(t) ==
  /\ ticks[t].pc = "generateContent"
  /\ returned' = "none"
  /\ UNCHANGED <<offlineVars, geminiVars>>
  /\ outbox' = <<"analysis-error">>
  /\ state' = Finally(state)
  /\ speechToTextResult' = 0
  /\ ticks' = [ticks EXCEPT ![t] = IdleTick]
  /\ UNCHANGED <<localAudioStream, localVideoStream, localScreenStream,
                 trackReady, trackKind, nextStream, calls, captureInterval,
                 nextTranscript, messageHistory, nextRequest, saved, timers,
                 closed>>
  /\ UNCHANGED <<recVars, synthVars>>

\* -------------------------------------------------------- speech recognizer
\* onresult with a final transcript, on an instance that still has handlers
FinalTranscript(i) ==
  /\ recognizers[i].running
  /\ recognizers[i].handlers
  /\ nextTranscript <= MaxTranscripts
  /\ speechToTextResult' = nextTranscript
  /\ nextTranscript' = nextTranscript + 1
  /\ returned' = "none"
  /\ UNCHANGED <<offlineVars, geminiVars>>
  /\ outbox' = <<"speech-text">>
  /\ UNCHANGED <<capVars, ticks, messageHistory, nextRequest, saved, timers,
                 closed>>
  /\ UNCHANGED <<recVars, synthVars>>

\* safeStartSpeechRecognition up to its setTimeout
safeStartSpeechRecognition(tm) ==
  /\ recognizers' = Detached(recognizers, speechRecognition)
  /\ speechRecognition' = 0
  /\ timers' = [tm EXCEPT !["create"] = @ + 1]

\* a delayed start that does not look at isAudioActive when it fires
DelayedStartUnguarded(kind) ==
  /\ kind \in {"audioStart", "restart"}
  /\ timers[kind] > 0
  /\ safeStartSpeechRecognition([timers EXCEPT ![kind] = @ - 1])
  /\ returned' = "none"
  /\ UNCHANGED <<offlineVars, geminiVars>>
  /\ outbox' = <<>>
  /\ UNCHANGED <<capVars, tutorVars, nextRecognizer, closed>>
  /\ UNCHANGED synthVars

\* the 500 ms timer of startAudioStream and the 1000 ms timer of onend
DelayedStart(kind) ==
  /\ kind \in {"audioStart", "restart"}
  /\ timers[kind] > 0
  /\ IF state.isAudioActive
       THEN safeStartSpeechRecognition([timers EXCEPT ![kind] = @ - 1])
       ELSE /\ timers' = [timers EXCEPT ![kind] = @ - 1]
            /\ UNCHANGED <<speechRecognition, recognizers>>
  /\ returned' = "none"
  /\ UNCHANGED <<offlineVars, geminiVars>>
  /\ outbox' = <<>>
  /\ UNCHANGED <<capVars, tutorVars, nextRecognizer, closed>>
  /\ UNCHANGED synthVars

\* the 500 ms timer of safeStartSpeechRecognition: a new instance
CreateRecognizer ==
  /\ timers["create"] > 0
  /\ IF state.isAudioActive
       THEN /\ nextRecognizer <= MaxRecognizers
            /\ speechRecognition' = nextRecognizer
            /\ recognizers' = [recognizers EXCEPT ![nextRecognizer] =
                                 [handlers |-> TRUE, running |-> FALSE]]
            /\ nextRecognizer' = nextRecognizer + 1
            /\ timers' = [timers EXCEPT !["create"] = @ - 1,
                                        !["start"] = @ + 1]
       ELSE /\ timers' = [timers EXCEPT !["create"] = @ - 1]
            /\ UNCHANGED recVars
  /\ returned' = "none"
  /\ UNCHANGED <<offlineVars, geminiVars>>
  /\ outbox' = <<>>
  /\ UNCHANGED <<capVars, tutorVars, closed>>
  /\ UNCHANGED synthVars

\* the 300 ms timer: start() on the instance the session references now;
\* start() on a running instance throws and the reference is dropped
StartRecognizer ==
  /\ timers["start"] > 0
  /\ timers' = [timers EXCEPT !["start"] = @ - 1]
  /\ IF state.isAudioActive /\ speechRecognition # 0
       THEN IF recognizers[speechRecognition].running
              THEN /\ speechRecognition' = 0
                   /\ UNCHANGED recognizers
              ELSE /\ recognizers' =
                        [recognizers EXCEPT ![speechRecognition].running = TRUE]
                   /\ UNCHANGED speechRecognition
       ELSE UNCHANGED <<speechRecognition, recognizers>>
  /\ returned' = "none"
  /\ UNCHANGED <<offlineVars, geminiVars>>
  /\ outbox' = <<>>
  /\ UNCHANGED <<capVars, tutorVars, nextRecognizer, closed>>
  /\ UNCHANGED synthVars

\* the engine ends a running instance by itself; onend runs if still attached
RecognizerEnded(i) ==
  /\ recognizers[i].running
  /\ recognizers' = [recognizers EXCEPT ![i].running = FALSE]
  /\ IF recognizers[i].handlers /\ state.isAudioActive
       THEN /\ speechRecognition' = 0
            /\ timers' = [timers EXCEPT !["restart"] = @ + 1]
       ELSE UNCHANGED <<speechRecognition, timers>>
  /\ returned' = "none"
  /\ UNCHANGED <<offlineVars, geminiVars>>
  /\ outbox' = <<>>
  /\ UNCHANGED <<capVars, tutorVars, nextRecognizer, closed>>
  /\ UNCHANGED synthVars

\* ------------------------------------------------------- speech synthesizer
\* window.speechSynthesis.speaking
EngineSpeaking == \E r \in DOMAIN utterances : utterances[r] = "speaking"

\* the engine begins to play a queued utterance
UtteranceStarted(r) ==
  /\ utterances[r] = "queued"
  /\ utterances' = [utterances EXCEPT ![r] = "speaking"]
  /\ returned' = "none"
  /\ UNCHANGED <<offlineVars, geminiVars>>
  /\ outbox' = <<>>
  /\ UNCHANGED <<capVars, tutorVars, timers, closed, watchdog>>
  /\ UNCHANGED recVars

\* onend of an utterance: played to its end, or cancelled
UtteranceEnded(r) ==
  /\ utterances[r] \in {"speaking", "cancelled"}
  /\ utterances' = [utterances EXCEPT ![r] = "done"]
  /\ state' = [state EXCEPT !.isSpeaking = FALSE]
  /\ returned' = "none"
  /\ UNCHANGED <<offlineVars, geminiVars>>
  /\ outbox' = <<>>
  /\ UNCHANGED <<localAudioStream, localVideoStream, localScreenStream,
                 trackReady, trackKind, nextStream, calls, captureInterval,
                 tutorVars, timers, closed, watchdog>>
  /\ UNCHANGED recVars

\* onerror of an utterance: synthesis failed, or it was interrupted
UtteranceFailed(r) ==
  /\ utterances[r] \in {"queued", "speaking", "cancelled"}
  /\ utterances' = [utterances EXCEPT ![r] = "done"]
  /\ state' = [state EXCEPT !.isSpeaking = FALSE]
  /\ returned' = "none"
  /\ UNCHANGED <<offlineVars, geminiVars>>
  /\ outbox' = <<"synthesis-error">>
  /\ UNCHANGED <<localAudioStream, localVideoStream, localScreenStream,
                 trackReady, trackKind, nextStream, calls, captureInterval,
                 tutorVars, timers, closed, watchdog>>
  /\ UNCHANGED recVars

\* a start check that leaves isSpeaking as it finds it
StartCheckIdle(r) ==
  /\ r \in watchdog
  /\ watchdog' = watchdog \ {r}
  /\ returned' = "none"
  /\ UNCHANGED <<offlineVars, geminiVars>>
  /\ outbox' = <<>>
  /\ UNCHANGED <<capVars, tutorVars, timers, closed, utterances>>
  /\ UNCHANGED recVars

\* the 1000 ms timer of speakResponse
StartCheck(r) ==
  /\ r \in watchdog
  /\ watchdog' = watchdog \ {r}
  /\ state' = IF state.isSpeaking /\ ~EngineSpeaking
                THEN [state EXCEPT !.isSpeaking = FALSE] ELSE state
  /\ returned' = "none"
  /\ UNCHANGED <<offlineVars, geminiVars>>
  /\ outbox' = <<>>
  /\ UNCHANGED <<localAudioStream, localVideoStream, localScreenStream,
                 trackReady, trackKind, nextStream, calls, captureInterval,
                 tutorVars, timers, closed, utterances>>
  /\ UNCHANGED recVars

\* ------------------------------------------------------ offline action queue
\* src/src/lib/hooks/useAuth.tsx: the queue is a JSON array in localStorage.
\* An action is identified here by its position in the order of enqueueing
\* (the code stamps it with Date.now()); the six action types all end in an
\* awaited store write and are not told apart.
OfflineAction(id) == [id |-> id, status |-> "pending", retryCount |-> 0]

IdleDrain == [pc |-> "idle", queue |-> <<>>, pendingActions |-> <<>>, at |-> 0]

InitOffline ==
  /\ stored = <<>>
  /\ drains = [d \in DrainIds |-> IdleDrain]
  /\ applied = <<>>
  /\ nextAction = 1

\* addToOfflineQueue has no await: read, push, write in one task.  The call of
\* a signed-out user returns false at line 208 and changes nothing.
addToOfflineQueue ==
  /\ nextAction <= MaxActions
  /\ stored' = Append(stored, OfflineAction(nextAction))
  /\ nextAction' = nextAction + 1
  /\ UNCHANGED <<drains, applied, sessionVars, geminiVars>>

\* queue.filter(action => action.status === 'pending'): the elements are the
\* objects of queue itself, kept here as their indexes
PendingActions(queue) ==
  SelectSeq([i \in 1..Len(queue) |-> i],
            LAMBDA i : queue[i].status = "pending")

Completed(queue) == SelectSeq(queue, LAMBDA a : a.status = "completed")

NotCompleted(queue) == SelectSeq(queue, LAMBDA a : a.status # "completed")

\* lines 292-293: the head of one loop round, up to the awaited store write
Processing(queue, i) == [queue EXCEPT ![i].status = "processing"]

\* lines 339-344: the final write-back, then the cleanup of a long queue
WrittenBack(queue) ==
  IF Len(Completed(queue)) > CleanupThreshold THEN NotCompleted(queue)
                                              ELSE queue

FreeDrain == CHOOSE d \in DrainIds :
               /\ drains[d].pc = "idle"
               /\ \A e \in DrainIds : drains[e].pc = "idle" => d <= e

\* processOfflineQueue from its call to its first await
processOfflineQueue(d) ==
  /\ drains[d].pc = "idle"
  /\ d = FreeDrain
  /\ LET queue == stored
         pendingActions == PendingActions(queue)
     IN IF Len(queue) = 0
          THEN UNCHANGED <<stored, drains>>
          ELSE IF Len(pendingActions) = 0
            THEN /\ stored' = WrittenBack(queue)
                 /\ UNCHANGED drains
            ELSE /\ stored' = Processing(queue, pendingActions[1])
                 /\ drains' = [drains EXCEPT ![d] =
                      [pc |-> "replay",
                       queue |-> Processing(queue, pendingActions[1]),
                       pendingActions |-> pendingActions, at |-> 1]]
  /\ UNCHANGED <<applied, nextAction, sessionVars, geminiVars>>

\* the rest of a loop round after the awaited write settled, and the head of
\* the next round or the end of the function
NextRound(d, queue) ==
  LET r == drains[d] IN
  IF r.at < Len(r.pendingActions)
    THEN /\ stored' = Processing(queue, r.pendingActions[r.at + 1])
         /\ drains' = [drains EXCEPT ![d].queue =
                                       Processing(queue,
                                                  r.pendingActions[r.at + 1]),
                                     ![d].at = r.at + 1]
    ELSE /\ stored' = WrittenBack(queue)
         /\ drains' = [drains EXCEPT ![d] = IdleDrain]

\* the store applied the write: lines 326-327
ReplayCompleted(d) ==
  /\ drains[d].pc = "replay"
  /\ LET r == drains[d]
         i == r.pendingActions[r.at]
     IN /\ applied' = Append(applied, r.queue[i].id)
        /\ NextRound(d, [r.queue EXCEPT ![i].status = "completed"])
  /\ UNCHANGED <<nextAction, sessionVars, geminiVars>>

\* the store rejected the write: the catch at lines 328-335
ReplayFailed(d) ==
  /\ drains[d].pc = "replay"
  /\ LET r == drains[d]
         i == r.pendingActions[r.at]
     IN NextRound(d, [r.queue EXCEPT ![i].status = "failed",
                                     ![i].retryCount = @ + 1])
  /\ UNCHANGED <<applied, nextAction, sessionVars, geminiVars>>

cleanupOfflineQueue ==
  /\ Len(Completed(stored)) > 0
  /\ stored' = NotCompleted(stored)
  /\ UNCHANGED <<drains, applied, nextAction, sessionVars, geminiVars>>

\* setupOfflineSyncListener: the 'online' handler and the 3000 ms startup
\* timer call processOfflineQueue, each whenever it fires
Offline ==
  \/ addToOfflineQueue
  \/ \E d \in DrainIds : processOfflineQueue(d)
  \/ \E d \in DrainIds : ReplayCompleted(d)
  \/ \E d \in DrainIds : ReplayFailed(d)
  \/ cleanupOfflineQueue

\* ------------------------------------------- history of a tutor-response call
Roles == {"user", "model", "tutor"}

Histories == UNION {[1..n -> Roles] : n \in 0..MaxHistory}

InitGemini ==
  /\ historyArg = <<>>
  /\ geminiHistory = <<>>
  /\ chatStarted = "none"

\* unnamed/part_003 (lib/api/gemini.ts), lines 159-164: the index of the first
\* user message, 0 (here 1) when there is none
StartIdx(roles) ==
  IF \E i \in DOMAIN roles : roles[i] = "user"
    THEN CHOOSE i \in DOMAIN roles :
           /\ roles[i] = "user"
           /\ \A j \in 1..(i - 1) : roles[j] # "user"
    ELSE 1

\* lines 167-174 of the same function
FromStartIdx(roles) ==
  LET startIdx == StartIdx(roles) IN
  [i \in 1..(Len(roles) - startIdx + 1) |->
     IF roles[i + startIdx - 1] = "tutor" THEN "model" ELSE "user"]

generateTutorResponse ==
  /\ chatStarted = "none"
  /\ IF Len(historyArg) = 0
       THEN /\ chatStarted' = "generateSingleResponse"
            /\ UNCHANGED geminiHistory
       ELSE /\ chatStarted' = "startChat"
            /\ geminiHistory' = FromStartIdx(historyArg)
  /\ UNCHANGED <<historyArg, sessionVars, offlineVars>>

\* src/src/lib/api/streamTutor.ts, lines 283-304
StreamHistory(roles) ==
  LET history == [i \in 1..(Len(roles) - 1) |->
                    IF roles[i] = "tutor" THEN "model"
                                                   ELSE roles[i]]
  IN IF Len(history) > 0 /\ history[1] = "user" THEN history ELSE <<>>

\* the data channel's onmessage pushes the user message before the call
streamTutorResponse ==
  /\ chatStarted = "none"
  /\ Len(historyArg) > 0
  /\ historyArg[Len(historyArg)] = "user"
  /\ chatStarted' = "startChat"
  /\ geminiHistory' = StreamHistory(historyArg)
  /\ UNCHANGED <<historyArg, sessionVars, offlineVars>>

\* src/src/lib/api/mediaStreamTutor.ts, lines 79-84
convertToGeminiHistory(messageHistorySeq) ==
  [i \in DOMAIN messageHistorySeq |->
     IF messageHistorySeq[i] = "tutor" THEN "model"
     ELSE IF messageHistorySeq[i] = "system" THEN "user"
     ELSE messageHistorySeq[i]]

\* analyzeScreenAndSpeech, lines 679-684: the session's history starts with
\* the system message of the constructor
SessionStartChat ==
  /\ chatStarted = "none"
  /\ chatStarted' = "startChat"
  /\ geminiHistory' = convertToGeminiHistory(<<"system">> \o historyArg)
  /\ UNCHANGED <<historyArg, sessionVars, offlineVars>>

TutorResponse ==
  \/ generateTutorResponse
  \/ streamTutorResponse
  \/ SessionStartChat

\* ------------------------------------------------------------ specifications
Init == InitSession /\ InitOffline /\ InitGemini

\* the inputs of a tutor-response call
InitHistory ==
  /\ InitSession
  /\ InitOffline
  /\ historyArg \in Histories
  /\ geminiHistory = <<>>
  /\ chatStarted = "none"

Capability ==
  \/ \E c \in CallIds, cfg \in Configs : startMediaStream(c, cfg)
  \/ \E c \in CallIds : AudioGranted(c)
  \/ \E c \in CallIds, e \in AcquireErrors : AudioFailed(c, e)
  \/ \E c \in CallIds : VideoGranted(c)
  \/ \E c \in CallIds, e \in AcquireErrors : VideoFailed(c, e)
  \/ \E c \in CallIds : ScreenGranted(c)
  \/ \E c \in CallIds, e \in AcquireErrors : ScreenFailed(c, e)
  \/ stopAudioStream
  \/ stopVideoStream
  \/ stopScreenStream
  \/ \E id \in StreamIds : TrackEnded(id)
  \/ close

Tutor ==
  \/ \E t \in TickIds : captureScreenFrame(t)
  \/ \E t \in TickIds : GrabFrameFailed(t)
  \/ \E t \in TickIds : FrameDiscarded(t)
  \/ \E t \in TickIds : AnalyzeBegin(t)
  \/ \E t \in TickIds : AnalyzeThrows(t)
  \/ \E t \in TickIds : ResponseArrived(t)
  \/ \E t \in TickIds : ResponseFailed(t)

Recognizer ==
  \/ \E i \in RecognizerIds : FinalTranscript(i)
  \/ \E k \in {"audioStart", "restart"} : DelayedStart(k)
  \/ CreateRecognizer
  \/ StartRecognizer
  \/ \E i \in RecognizerIds : RecognizerEnded(i)

Synthesizer ==
  \/ \E r \in 1..MaxRequests : UtteranceStarted(r)
  \/ \E r \in 1..MaxRequests : UtteranceEnded(r)
  \/ \E r \in 1..MaxRequests : UtteranceFailed(r)
  \/ \E r \in 1..MaxRequests : StartCheck(r)

\* The capability negotiator under every interleaving of start calls, grants,
\* refusals, stop calls, device loss and close.
SpecCap == Init /\ [][Capability]_vars

\* The two visual modalities alone: calls that do not ask for the microphone.
VisualConfigs == {cfg \in Configs : ~cfg.audio}

Visual ==
  \/ \E c \in CallIds, cfg \in VisualConfigs : startMediaStream(c, cfg)
  \/ \E c \in CallIds : VideoGranted(c)
  \/ \E c \in CallIds, e \in AcquireErrors : VideoFailed(c, e)
  \/ \E c \in CallIds : ScreenGranted(c)
  \/ \E c \in CallIds, e \in AcquireErrors : ScreenFailed(c, e)
  \/ stopVideoStream
  \/ stopScreenStream
  \/ \E id \in StreamIds : TrackEnded(id)
  \/ close

SpecVisual == Init /\ [][Visual]_vars

\* One tutoring session: microphone and screen are started by one call, the
\* recognizer delivers transcripts, the sampler ticks and the tutor answers.
SessionConfig == [audio |-> TRUE, video |-> FALSE, screen |-> TRUE]

Session ==
  \/ startMediaStream(1, SessionConfig)
  \/ AudioGranted(1)
  \/ ScreenGranted(1)
  \/ \E e \in AcquireErrors : ScreenFailed(1, e)
  \/ stopScreenStream
  \/ close

\* the recognizer as the session starts it: the instance listens until the
\* microphone is stopped
Listening ==
  \/ \E i \in RecognizerIds : FinalTranscript(i)
  \/ DelayedStart("audioStart")
  \/ CreateRecognizer
  \/ StartRecognizer

Next == Session \/ Tutor \/ Listening \/ Synthesizer

Spec == Init /\ [][Next]_vars

\* The microphone and its recognizer: audio-only start calls, grants,
\* refusals, stopAudioStream, the delayed-start timers and the recognizer's
\* own events.
AudioConfig == [audio |-> TRUE, video |-> FALSE, screen |-> FALSE]

Microphone ==
  \/ \E c \in CallIds : startMediaStream(c, AudioConfig)
  \/ \E c \in CallIds : AudioGranted(c)
  \/ \E c \in CallIds, e \in AcquireErrors : AudioFailed(c, e)
  \/ stopAudioStream

NextRec == Microphone \/ Recognizer

SpecRec == Init /\ [][NextRec]_vars

\* The restart cycle of the recognizer alone (no transcripts, no refused
\* acquisitions), with the event loop running every pending setTimeout
\* callback.
Restarting ==
  \/ \E c \in CallIds : startMediaStream(c, AudioConfig)
  \/ \E c \in CallIds : AudioGranted(c)
  \/ stopAudioStream
  \/ \E k \in {"audioStart", "restart"} : DelayedStart(k)
  \/ CreateRecognizer
  \/ StartRecognizer
  \/ \E i \in RecognizerIds : RecognizerEnded(i)

\* The replies of one session and their utterances: the sampling ticks follow
\* one another (a tick fires when the one before has completed), with the
\* event loop running every pending start check and the synthesis engine
\* ending every utterance it plays or cancelled; the engine is not assumed to
\* begin a queued utterance.
Speaking ==
  \/ startMediaStream(1, SessionConfig)
  \/ AudioGranted(1)
  \/ ScreenGranted(1)
  \/ close
  \/ captureScreenFrame(1)
  \/ FrameDiscarded(1)
  \/ AnalyzeBegin(1)
  \/ ResponseArrived(1)
  \/ ResponseFailed(1)
  \/ Listening
  \/ Synthesizer

SpecSpeakLive ==
  /\ Init
  /\ [][Speaking]_vars
  /\ \A r \in 1..MaxRequests : WF_vars(StartCheck(r))
  /\ \A r \in 1..MaxRequests : WF_vars(UtteranceEnded(r))

SpecOffline == Init /\ [][Offline]_vars

SpecHistory == InitHistory /\ [][TutorResponse]_vars

SpecRecLive ==
  /\ Init
  /\ [][Restarting]_vars
  /\ WF_vars(DelayedStart("audioStart"))
  /\ WF_vars(DelayedStart("restart"))
  /\ WF_vars(CreateRecognizer)
  /\ WF_vars(StartRecognizer)

\* ------------------------------------------------------------------ claims
Settled == \A c \in CallIds : calls[c].pc = "idle"

InFlight == {t \in TickIds : ticks[t].pc = "generateContent"}

Live(kind) ==
  {id \in StreamIds : trackKind[id] = kind /\ trackReady[id] = "live"}

CapabilityFlags ==
  <<state.isAudioActive, state.isVideoActive, state.isScreenActive>>

\* C1: once every startMediaStream call has settled, at most one of
\* isVideoActive and isScreenActive is true.
C1_MutualExclusion ==
  Settled => ~(state.isVideoActive /\ state.isScreenActive)

\* C2: a true capability flag implies that the session holds a stream of
\* that modality whose track is live.
C2_ActiveFlagHasLiveTrack ==
  /\ state.isAudioActive =>
       localAudioStream # 0 /\ trackReady[localAudioStream] = "live"
  /\ state.isVideoActive =>
       localVideoStream # 0 /\ trackReady[localVideoStream] = "live"
  /\ state.isScreenActive =>
       localScreenStream # 0 /\ trackReady[localScreenStream] = "live"

\* the step in which the camera or screen acquisition of call c is refused
AcquisitionRefused(c) ==
  /\ calls[c].pc \in {"awaitVideo", "awaitScreen"}
  /\ calls'[c].pc # calls[c].pc
  /\ nextStream' = nextStream

\* the step in which call c requests the camera / the screen
RequestsVideo(c) == calls[c].pc # "awaitVideo" /\ calls'[c].pc = "awaitVideo"

RequestsScreen(c) == calls[c].pc # "awaitScreen" /\ calls'[c].pc = "awaitScreen"

\* C3: a refused camera or screen acquisition leaves the capability flags
\* and the liveness of every track as they were and emits an advisory; the
\* request itself ends no live track of the stream it replaces.
C3_RefusalKeepsState ==
  [][\A c \in CallIds :
       /\ AcquisitionRefused(c) =>
            /\ CapabilityFlags' = CapabilityFlags
            /\ trackReady' = trackReady
            /\ Range(outbox') \cap SystemInfo # {}
       /\ RequestsVideo(c) /\ localVideoStream # 0 =>
            trackReady'[localVideoStream] = trackReady[localVideoStream]
       /\ RequestsScreen(c) /\ localScreenStream # 0 =>
            trackReady'[localScreenStream] = trackReady[localScreenStream]]_vars

\* a refusal was just reported while another capability is held
C3_Witness ==
  /\ Range(outbox) \cap {"camera-denied", "camera-error",
                         "screen-denied", "screen-error"} # {}
  /\ state.isVideoActive \/ state.isScreenActive
  /\ \E id \in StreamIds : trackReady[id] = "ended"

\* C4: when a call requests the screen the camera has been deactivated and
\* its track stopped, and the same with camera and screen exchanged.
C4_OtherVisualStoppedFirst ==
  [][\A c \in CallIds :
       /\ RequestsScreen(c) =>
            /\ ~state'.isVideoActive
            /\ Live("video") = {}
       /\ RequestsVideo(c) =>
            /\ ~state'.isScreenActive
            /\ Live("screen") = {}]_vars

\* C5: no two acquisitions of one modality are in flight together and no
\* modality has more than one live stream.
C5_SerializedPerModality ==
  /\ \A m \in {"awaitAudio", "awaitVideo", "awaitScreen"} :
       Cardinality({c \in CallIds : calls[c].pc = m}) <= 1
  /\ \A k \in {"audio", "video", "screen"} : Cardinality(Live(k)) <= 1

\* C6: at most one generateContent request of the session is in flight.
C6_OneRequestInFlight == Cardinality(InFlight) <= 1

\* C7: every tutor entry of the history directly follows the user entry of
\* the request it answers.
C7_HistoryInConversationOrder ==
  \A i \in DOMAIN messageHistory :
    messageHistory[i].role = "tutor" =>
      /\ i > 1
      /\ messageHistory[i - 1].role = "user"
      /\ messageHistory[i - 1].request = messageHistory[i].request

\* the step in which the request of tick t settles without a reply
RequestFails(t) ==
  /\ ticks[t].pc = "generateContent"
  /\ ticks'[t].pc # "generateContent"
  /\ TutorMessage(ticks[t].request) \notin Range(messageHistory')

\* the step in which the request of tick t settles with a reply
RequestSucceeds(t) ==
  /\ ticks[t].pc = "generateContent"
  /\ ticks'[t].pc # "generateContent"
  /\ TutorMessage(ticks[t].request) \in Range(messageHistory')

\* the step in which the tutor call of tick t throws before its request
CallThrows(t) ==
  /\ ticks[t].pc = "grabFrame"
  /\ ticks'[t].pc = "idle"
  /\ speechToTextResult # 0
  /\ speechToTextResult' = 0

\* C8: when the request fails the history is what it was before the call,
\* exactly one advisory is emitted and the tick is free again.
C8_FailureLeavesHistory ==
  [][\A t \in TickIds :
       RequestFails(t) =>
         /\ messageHistory' = ticks[t].before
         /\ outbox' = <<"analysis-error">>
         /\ ticks'[t].pc = "idle"]_vars

\* C9: a successful cycle leaves the history it started from extended by its
\* user entry and its tutor entry, and no step changes an existing entry.
C9_CycleAppendsTwo ==
  [][/\ \A t \in TickIds :
          RequestSucceeds(t) =>
            messageHistory' =
              ticks[t].before \o <<UserMessage(ticks[t].request,
                                               ticks[t].speechText),
                                   TutorMessage(ticks[t].request)>>
     /\ Len(messageHistory') >= Len(messageHistory)
     /\ SubSeq(messageHistory', 1, Len(messageHistory)) = messageHistory]_vars

\* C10: whenever a tutor call settles, with a reply, a provider failure or an
\* exception, isProcessing is false, and it is false whenever no request is
\* in flight.
C10_ProcessingReset ==
  /\ [](InFlight = {} => ~state.isProcessing)
  /\ [][\A t \in TickIds :
          RequestFails(t) \/ RequestSucceeds(t) \/ CallThrows(t)
            => ~state'.isProcessing]_vars

\* a request has just failed while the frame sampler keeps running
C10_Witness ==
  /\ outbox = <<"analysis-error">>
  /\ ~state.isProcessing
  /\ captureInterval

\* the step in which tick t, suspended at grabFrame, goes on
LeavesGrabFrame(t) == ticks[t].pc = "grabFrame" /\ ticks'[t].pc # "grabFrame"

\* the step in which tick t sends its generateContent request
IssuesRequest(t) ==
  /\ ticks'[t].pc = "generateContent"
  /\ ticks'[t].request = nextRequest
  /\ nextRequest' = nextRequest + 1

\* C11 as stated: a tick that goes on with an empty transcript buffer issues
\* no request; a tick that goes on with a non-empty buffer enters the tutor
\* call exactly once, and the buffer is empty when a tick that entered the
\* tutor call has completed.
C11_TickPairsTranscript ==
  [][\A t \in TickIds :
       /\ LeavesGrabFrame(t) /\ speechToTextResult = 0 =>
            nextRequest' = nextRequest /\ ticks'[t].pc = "idle"
       /\ LeavesGrabFrame(t) /\ speechToTextResult # 0 =>
            IssuesRequest(t) \/ CallThrows(t)
       /\ ticks[t].pc = "generateContent" /\ ticks'[t].pc = "idle" =>
            speechToTextResult' = 0]_vars

\* C11, amended: a tick whose frame was grabbed and that reads an empty
\* buffer issues no request and changes nothing; a tick that reads a
\* non-empty buffer enters the tutor call once, with the transcript it read
\* and at most one request, and the buffer is empty when that tick has
\* completed; a tick whose grabFrame fails issues no request and leaves the
\* buffer as it is.
C11_GrabbedFramePairsTranscript ==
  [][\A t \in TickIds :
       /\ LeavesGrabFrame(t) /\ speechToTextResult = 0 =>
            /\ nextRequest' = nextRequest
            /\ ticks'[t].pc = "idle"
            /\ UNCHANGED <<messageHistory, state, speechToTextResult>>
       /\ LeavesGrabFrame(t) /\ speechToTextResult # 0 =>
            \/ /\ IssuesRequest(t)
               /\ ticks'[t].speechText = speechToTextResult
               /\ messageHistory' =
                    Append(messageHistory,
                           UserMessage(nextRequest, speechToTextResult))
            \/ CallThrows(t) /\ nextRequest' = nextRequest
            \/ /\ ticks'[t].pc = "idle"
               /\ UNCHANGED <<nextRequest, messageHistory, speechToTextResult>>
       /\ ticks[t].pc = "generateContent" /\ ticks'[t].pc # "generateContent" =>
            /\ ticks'[t].pc = "idle"
            /\ nextRequest' = nextRequest
            /\ speechToTextResult' = 0]_vars

\* a tick has completed with a reply while the sampler keeps running: one
\* request was issued and the buffer is empty
C11_Witness ==
  /\ captureInterval
  /\ \A t \in TickIds : ticks[t].pc = "idle"
  /\ nextRequest = 2
  /\ TutorMessage(1) \in Range(messageHistory)
  /\ speechToTextResult = 0

\* the utterances the engine holds: queued or playing
ActiveUtterances ==
  {r \in DOMAIN utterances : utterances[r] \in {"queued", "speaking"}}

\* C12: the engine holds at most one utterance; a speakResponse leaves the
\* new utterance as the only one held, and a cancelled utterance is never
\* queued or played again.
C12_SingleUtterance ==
  /\ [](Cardinality(ActiveUtterances) <= 1)
  /\ [][\A r \in DOMAIN utterances :
          /\ utterances[r] = "none" /\ utterances'[r] = "queued" =>
               ActiveUtterances' = {r}
          /\ utterances[r] \in {"cancelled", "done"} =>
               utterances'[r] \in {"cancelled", "done"}]_vars

\* the first reply was cancelled by the second, which is playing
C12_Witness ==
  \E a, b \in DOMAIN utterances :
    /\ a # b
    /\ utterances[a] = "cancelled"
    /\ utterances[b] = "speaking"

\* the recognizer instances that are running
Running(recs) == {i \in RecognizerIds : recs[i].running}

\* what a step may do to the recognizers: with isAudioActive false an ending
\* recognizer or an elapsing restart delay creates and starts nothing and
\* sets no timer, and every instance created is a fresh one
RestartOnlyWhenActive ==
  /\ (~state.isAudioActive /\ Running(recognizers') # Running(recognizers)) =>
       (/\ Running(recognizers') \subseteq Running(recognizers)
        /\ UNCHANGED <<timers, nextRecognizer>>)
  /\ (~state.isAudioActive /\ timers'["restart"] < timers["restart"]) =>
       (/\ timers'["create"] = timers["create"]
        /\ UNCHANGED <<recognizers, speechRecognition, nextRecognizer>>)
  /\ (nextRecognizer' # nextRecognizer) =>
       (/\ state.isAudioActive
        /\ recognizers[nextRecognizer] = [handlers |-> FALSE, running |-> FALSE]
        /\ speechRecognition' = nextRecognizer)

\* C13: after a recognizer has ended while isAudioActive was true (its onend
\* set the restart timer), an instance created after that end is eventually
\* running unless the microphone is stopped (or a creation is due beyond
\* MaxRecognizers); a recognizer that ends while isAudioActive is false, and
\* a restart delay that elapses while it is false, create and start nothing.
C13_RestartCreatesNewInstance ==
  /\ \A n \in RecognizerIds :
       (timers["restart"] > 0 /\ nextRecognizer = n)
         ~> (\/ ~state.isAudioActive
             \/ \E i \in n..MaxRecognizers : i \in Running(recognizers)
             \/ timers["create"] > 0 /\ nextRecognizer > MaxRecognizers)
  /\ [][RestartOnlyWhenActive]_vars

\* the second created instance has ended and the third, created after that
\* end, is listening
C13_Witness ==
  /\ state.isAudioActive
  /\ recognizers[2].handlers /\ ~recognizers[2].running
  /\ speechRecognition = 3
  /\ recognizers[3].running
  /\ timers = [k \in TimerKinds |-> 0]

\* the recognizer instances that are alive: handlers attached or running
Alive(recs) == {i \in RecognizerIds : recs[i].handlers \/ recs[i].running}

\* C14: at most one recognizer instance is alive, and when an instance is
\* created no other instance has a handler attached.
C14_OneRecognizerAlive ==
  /\ [](Cardinality(Alive(recognizers)) <= 1)
  /\ [][nextRecognizer' # nextRecognizer => Alive(recognizers) = {}]_vars

\* the step in which the generateContent request of tick t settles
RequestSettles(t) ==
  ticks[t].pc = "generateContent" /\ ticks'[t].pc # "generateContent"

\* C15: a request that settles after close() appends nothing to the history,
\* persists nothing, starts no speech and changes no session flag.
C15_LateResponseIgnored ==
  [][\A t \in TickIds :
       closed /\ RequestSettles(t) =>
         /\ messageHistory' = messageHistory
         /\ saved' = saved
         /\ utterances' = utterances
         /\ state' = state]_vars

\* the streams the session references
HeldStreams == {localAudioStream, localVideoStream, localScreenStream} \ {0}

CapabilityState ==
  <<state, localAudioStream, localVideoStream, localScreenStream, trackReady,
    captureInterval>>

\* C17 as stated: a stop call on an inactive modality leaves flags, streams,
\* tracks, sampler timer and recognizer unchanged.
C17_StopInactiveIsNoOp ==
  [][/\ (stopAudioStream /\ ~state.isAudioActive) =>
          UNCHANGED <<CapabilityState, speechRecognition, recognizers>>
     /\ (stopVideoStream /\ ~state.isVideoActive) =>
          UNCHANGED <<CapabilityState, speechRecognition, recognizers>>
     /\ (stopScreenStream /\ ~state.isScreenActive) =>
          UNCHANGED <<CapabilityState, speechRecognition, recognizers>>]_vars

\* C17, amended: stopVideoStream and stopScreenStream on an inactive
\* modality change nothing; stopAudioStream on inactive audio leaves flags,
\* streams, tracks and sampler timer unchanged, changes no recognizer but
\* the one the session still references, and changes nothing when the
\* session references none (as after a first stopAudioStream).
C17_StopInactiveKeepsCapabilities ==
  [][/\ (stopAudioStream /\ ~state.isAudioActive) =>
          (/\ UNCHANGED CapabilityState
           /\ \A i \in RecognizerIds :
                i # speechRecognition => recognizers'[i] = recognizers[i]
           /\ speechRecognition = 0 => speechRecognition' = 0)
     /\ (stopVideoStream /\ ~state.isVideoActive) =>
          UNCHANGED <<CapabilityState, speechRecognition, recognizers>>
     /\ (stopScreenStream /\ ~state.isScreenActive) =>
          UNCHANGED <<CapabilityState, speechRecognition, recognizers>>]_vars

\* stopAudioStream has run on a session that never held a stream: nothing
\* changed but the recognizer of the constructor, which is detached
C17_Witness ==
  /\ ~closed
  /\ nextStream = 1
  /\ state = InitialState
  /\ speechRecognition = 0
  /\ ~recognizers[1].handlers

\* C18: when getUserMedia rejects with NotAllowedError the step emits an
\* advisory and leaves isAudioActive as it was, and a startMediaStream call
\* that returns in that step returns failure.
C18_DenialReturnsFailure ==
  [][\A c \in CallIds :
       AudioFailed(c, "NotAllowedError") =>
         /\ Range(outbox') \cap SystemInfo # {}
         /\ state'.isAudioActive = state.isAudioActive
         /\ calls'[c].pc = "idle" => returned' = "false"]_vars

\* C19: stopAudioStream leaves no recognizer running and no transcript in
\* the buffer, and while isAudioActive stays false no recognizer starts.
C19_StopAudioClearsTranscript ==
  [][/\ stopAudioStream =>
          (speechToTextResult' = 0 /\ Running(recognizers') = {})
     /\ (~state.isAudioActive /\ ~state'.isAudioActive) =>
          Running(recognizers') \subseteq Running(recognizers)]_vars

\* C20: once every start call has settled, the sampling timer is set
\* whenever the camera or the screen is active.
C20_SamplerFollowsVisual ==
  (Settled /\ (state.isVideoActive \/ state.isScreenActive)) => captureInterval

\* C21: the history handed to the generative API (model.startChat) is empty
\* or begins with a user-role turn, whatever message history the
\* tutor-response call was given.
C21_HistoryStartsWithUser ==
  chatStarted = "startChat" =>
    (Len(geminiHistory) = 0 \/ geminiHistory[1] = "user")

\* C22: the store applies the replayed actions in the order of their
\* enqueueing, and at most one replay is awaited at a time: the replay of an
\* action starts only after the replay before it has settled.
Replaying == {d \in DrainIds : drains[d].pc = "replay"}

C22_FifoReplay ==
  /\ \A i, j \in DOMAIN applied : i < j => applied[i] <= applied[j]
  /\ Cardinality(Replaying) <= 1

\* C23: an action marked failed stays in the stored queue, and a drain that
\* starts while the stored queue holds an action that failed once replays it.
FailedKept ==
  \A a \in Range(stored) :
    a.status = "failed" => \E b \in Range(stored') : b.id = a.id

FailedReplayed ==
  (\E d \in DrainIds : processOfflineQueue(d)) =>
    \A i \in DOMAIN stored :
      (stored[i].status = "failed" /\ stored[i].retryCount <= 1) =>
        \E d \in DrainIds :
          /\ drains'[d].pc = "replay"
          /\ drains[d].pc = "idle"
          /\ i \in Range(drains'[d].pendingActions)

C23_FailedKeptAndRetried == [][FailedKept /\ FailedReplayed]_vars

\* C24: the processing flag is true exactly in the states in which a
\* generateContent request of the session is in flight.
C24_ProcessingIffInFlight == state.isProcessing <=> InFlight # {}

\* C25: no finalized transcript is the speech text of more than one tutor
\* call.
Forwarded(k) ==
  {i \in DOMAIN messageHistory :
     messageHistory[i].role = "user" /\ messageHistory[i].text = k}

C25_TranscriptForwardedOnce ==
  \A k \in 1..MaxTranscripts : Cardinality(Forwarded(k)) <= 1

\* C27: while an utterance is playing and isSpeaking is true, no callback of
\* an earlier, cancelled utterance (its onend, its onerror, its 1000 ms start
\* check) sets isSpeaking to false.  The engine holds one utterance at most
\* (C12), so the one playing is that of the latest speakResponse.
Playing == {r \in DOMAIN utterances : utterances[r] = "speaking"}

CallbackOf(r) == UtteranceEnded(r) \/ UtteranceFailed(r) \/ StartCheck(r)

CancelledKeepsSpeaking ==
  \A r \in DOMAIN utterances :
    (utterances[r] = "cancelled" /\ CallbackOf(r)
       /\ Playing # {} /\ state.isSpeaking)
      => state'.isSpeaking

C27_SpeakingWhilePlaying == [][CancelledKeepsSpeaking]_vars

\* C28: while the screen is active, a finalized transcript that waits in the
\* buffer and has not been forwarded stays in the buffer, where the next tick
\* reads it, until a tutor call forwards it.
ForwardedIn(history, k) ==
  \E i \in DOMAIN history : history[i].role = "user" /\ history[i].text = k

TranscriptKept ==
  (/\ state.isScreenActive
   /\ state'.isScreenActive
   /\ speechToTextResult # 0
   /\ ~ForwardedIn(messageHistory, speechToTextResult))
    => (\/ speechToTextResult' = speechToTextResult
        \/ ForwardedIn(messageHistory', speechToTextResult))

C28_NoTranscriptLost == [][TranscriptKept]_vars

\* C26: isSpeaking never stays true forever: whenever it is true it becomes
\* false again, through the end or error of the utterance or, when the
\* engine never begins to play it, through the 1000 ms start check.
C26_SpeakingEnds == state.isSpeaking ~> ~state.isSpeaking

\* the engine never began to play the utterance and the start check has
\* reset the flag
C26_Witness ==
  \E r \in DOMAIN utterances :
    /\ utterances[r] = "queued"
    /\ r \notin watchdog
    /\ ~state.isSpeaking

\* C29: the write-back of a drain (after a replay settled) removes no pending
\* action from the stored queue, so an action enqueued during the drain is
\* still stored when the drain has finished.
WritesBack == \E d \in DrainIds : ReplayCompleted(d) \/ ReplayFailed(d)

PendingKept ==
  WritesBack =>
    \A a \in Range(stored) :
      a.status = "pending" => \E b \in Range(stored') : b.id = a.id

C29_EnqueuedDuringDrainKept == [][PendingKept]_vars

\* C30: the store applies each queued action at most once, also when two
\* drains run on the same stored queue.
C30_AppliedAtMostOnce ==
  \A i, j \in DOMAIN applied : i # j => applied[i] # applied[j]

====
